---- MODULE Spec2Model ----
(***************************************************************************)
(* The video pipeline of facefwd: the three POST route handlers of         *)
(* /api/create-video and the poll loops they drive.                        *)
(*                                                                         *)
(*   "POST_flags"  src/unnamed/part_000:217-353  (USE_*_API switches,      *)
(*                 pollCaptionsResult, pollUnscreenResult, curl, ffmpeg)   *)
(*   "POST_local"  src/unnamed/part_001:217-343  (same, no switches)       *)
(*   "POST_remote" src/unnamed/part_001:535-759  (pollUntilDone,           *)
(*                 Creatomate, Captions AI edit)                           *)
(*                                                                         *)
(* One behaviour is one request handled by one of the handlers.  An await  *)
(* on an external operation is one action: the operation is issued and its *)
(* answer, drawn from a small set, is handled.  Synchronous code takes no  *)
(* time; the clock `now` (milliseconds) advances only across awaits.       *)
(* Strings are TLA+ strings; undefined and null are the empty string.      *)
(***************************************************************************)
EXTENDS Integers, Sequences, FiniteSets, TLC

\* ---------------------------------------------------------------- bounds
\* Longest await on an HTTP call or on the polls, in polling timeouts: axios is
\* used without a timeout, so a call answers at once or hangs this long.
MaxDelay == 1
\* thrownSeen counts thrown status checks up to this value and then saturates.
MaxThrownSeen == 1

\* ------------------------------------------------------ program constants
POLLING_INTERVAL_MS == 5000
POLLING_TIMEOUT_MS == 300000
maxAttempts == 100

\* ---------------------------------------------------------------- strings
\* String.prototype.startsWith
StartsWith(s, p) == Len(s) >= Len(p) /\ SubSeq(s, 1, Len(p)) = p

\* String.prototype.includes
Includes(s, p) ==
    \E i \in 1..(Len(s) - Len(p) + 1) : SubSeq(s, i, i + Len(p) - 1) = p

\* JavaScript truthiness of a string-or-undefined value.
Truthy(s) == s # ""

\* a || b on strings
OrElse(a, b) == IF Truthy(a) THEN a ELSE b

\* ----------------------------------------------------------------- errors
\* A thrown value.  axios: it is an AxiosError; status: the HTTP status of
\* error.response (0: no response); data: error.response.data.
NoData == [message |-> "", title |-> "", detail |-> "", error |-> "", msg |-> ""]

StdError(m) == [axios |-> FALSE, message |-> m, status |-> 0, data |-> NoData]

\* axios rejects a response whose status fails validateStatus.
AxiosHttpError(code, d) ==
    [axios |-> TRUE,
     message |-> "Request failed with status code " \o ToString(code),
     status |-> code, data |-> d]

\* axios rejects when no response arrives.
AxiosNetworkError ==
    [axios |-> TRUE, message |-> "Network Error", status |-> 0, data |-> NoData]

NoError == StdError("")

\* What a failing external HTTP call can throw.
HttpFailures ==
    { AxiosNetworkError,
      AxiosHttpError(500, NoData),
      AxiosHttpError(401, [NoData EXCEPT !.title = "Invalid API key"]),
      AxiosHttpError(422, [NoData EXCEPT !.message = "video_url is invalid"]) }

\* ------------------------------------------------------- status responses
\* The answer to one status check: thrown is the error axios rejects with
\* (NoError: a response arrived); status/state, url and error are the fields
\* the poll loops read from the response body ("": absent).
Answer(t, st, u, e) == [thrown |-> t, status |-> st, url |-> u, error |-> e]

CAPTIONS_RESULT_URL == "https://captions/result.mp4"
UNSCREEN_RESULT_URL == "https://unscreen/result.mp4"
UNSCREEN_BUNDLE_URL == "https://unscreen/pro_bundle.zip"

\* No status check has answered.
NoAnswer == Answer(NoError, "(none)", "", "")

\* Answers of https://api.captions.ai/api/creator/poll
CaptionsAnswers ==
    { Answer(NoError, "PROCESSING", "", ""),
      Answer(NoError, "COMPLETE", CAPTIONS_RESULT_URL, ""),
      Answer(NoError, "COMPLETE", "", ""),
      Answer(NoError, "FAILED", "", "quota exceeded"),
      Answer(NoError, "FAILED", "", "") }
    \cup { Answer(t, "", "", "") : t \in {AxiosNetworkError, AxiosHttpError(500, NoData)} }

\* Answers of GET https://api.unscreen.com/v1.0/videos/<id>
UnscreenAnswers ==
    { Answer(NoError, "queued", "", ""),
      Answer(NoError, "processing", "", ""),
      Answer(NoError, "done", UNSCREEN_RESULT_URL, ""),
      Answer(NoError, "done", UNSCREEN_BUNDLE_URL, ""),
      Answer(NoError, "done", "", ""),
      Answer(NoError, "error", "", "Video too long"),
      Answer(NoError, "error", "", ""),
      Answer(NoError, "failed", "", ""),
      Answer(NoError, "", "", "") }
    \cup { Answer(t, "", "", "") : t \in {AxiosNetworkError, AxiosHttpError(404, NoData)} }

\* ------------------------------------------------- one poll loop iteration
\* What one iteration of a poll loop does with an answer, and how a poll call
\* settles (Continue: it has not).
Return(u) == [kind |-> "return", value |-> u, err |-> NoError]
Throw(e) == [kind |-> "throw", value |-> "", err |-> e]
Continue == [kind |-> "continue", value |-> "", err |-> NoError]

\* pollCaptionsResult, body of the for loop.
pollCaptionsResultStep(a) ==
    IF a.thrown # NoError THEN Throw(a.thrown)
    ELSE IF a.status = "COMPLETE" /\ Truthy(a.url) THEN Return(a.url)
    ELSE IF a.status = "FAILED"
         THEN Throw(StdError(OrElse(a.error, "Video generation failed")))
    ELSE Continue

\* pollUnscreenResult, body of the for loop.
pollUnscreenResultStep(a) ==
    IF a.thrown # NoError THEN Throw(a.thrown)
    ELSE IF a.status = "done" /\ Truthy(a.url) THEN Return(a.url)
    ELSE Continue

\* pollUntilDoneTry comparing the status with 'completed' instead of successStatus.
pollUntilDoneTryWrongTag(a, successStatus, failureStatusPrefix) ==
    IF a.thrown # NoError THEN Throw(a.thrown)
    ELSE IF a.status = "completed" THEN Return(a.url)
    ELSE IF Truthy(a.status) /\ StartsWith(a.status, failureStatusPrefix)
         THEN Throw(StdError("Polling failed with status: " \o a.status
                             \o ". Error: " \o OrElse(a.error, "Unknown error")))
    ELSE Continue

\* pollUntilDone, body of the try block.
pollUntilDoneTry(a, successStatus, failureStatusPrefix) ==
    IF a.thrown # NoError THEN Throw(a.thrown)
    ELSE IF a.status = successStatus
         THEN IF Truthy(a.url) THEN Return(a.url)
              ELSE Throw(StdError("Polling succeeded (status: " \o a.status
                                  \o ") but no result URL found."))
    ELSE IF Truthy(a.status) /\ StartsWith(a.status, failureStatusPrefix)
         THEN Throw(StdError("Polling failed with status: " \o a.status
                             \o ". Error: " \o OrElse(a.error, "Unknown error")))
    ELSE Continue

\* pollUntilDoneCatch without the re-throw.
pollUntilDoneCatchSwallowsAll(e) == Continue

\* pollUntilDone, the catch block: only a definitive failure is re-thrown.
pollUntilDoneCatch(e) ==
    IF Includes(e.message, "Polling failed with status") THEN Throw(e)
    ELSE Continue

\* pollUntilDoneStep without the try/catch around the status check.
pollUntilDoneStepNoCatch(a, successStatus, failureStatusPrefix) ==
    pollUntilDoneTry(a, successStatus, failureStatusPrefix)

\* pollUntilDone, one iteration of the while loop.
pollUntilDoneStep(a, successStatus, failureStatusPrefix) ==
    LET t == pollUntilDoneTry(a, successStatus, failureStatusPrefix)
    IN  IF t.kind = "throw" THEN pollUntilDoneCatch(t.err) ELSE t

\* pollUntilDoneRunning with <= for <.
pollUntilDoneRunningInclusive(startTime, t) == t - startTime <= POLLING_TIMEOUT_MS

\* pollUntilDone, the while condition.
pollUntilDoneRunning(startTime, t) == t - startTime < POLLING_TIMEOUT_MS

PollingTimedOutError ==
    StdError("Polling timed out after " \o ToString(POLLING_TIMEOUT_MS \div 1000)
             \o " seconds.")

\* ------------------------------------------------------------- the request
Variants == {"POST_flags", "POST_local", "POST_remote"}

Requests ==
    [script : {"", "Hello"},
     backgroundImageUrl : {"", "https://x/img.jpg"},
     creatorId : {"", "c1"}]

\* process.env: the two switches of POST_flags and the three API keys.
Environments ==
    [USE_CAPTIONS_API : BOOLEAN, USE_UNSCREEN_API : BOOLEAN,
     CAPTIONS_API_KEY : {"", "ck"}, UNSCREEN_API_KEY : {"", "uk"},
     CREATOMATE_API_KEY : {"", "mk"}]

\* ValidRequest that tests the script only.
ValidRequestScriptOnly(r) == Truthy(r.script)

\* if (!script || !backgroundImageUrl || !creatorId)
ValidRequest(r) ==
    Truthy(r.script) /\ Truthy(r.backgroundImageUrl) /\ Truthy(r.creatorId)

\* POST_remote: all three API keys are set.
KeysPresent(e) ==
    Truthy(e.CAPTIONS_API_KEY) /\ Truthy(e.UNSCREEN_API_KEY)
    /\ Truthy(e.CREATOMATE_API_KEY)

\* Whether the handler runs step 1 / step 2 against the external service.
UsesCaptions(v, e) ==
    CASE v = "POST_flags" -> e.USE_CAPTIONS_API
      [] v = "POST_local" -> TRUE
      [] OTHER -> FALSE

UsesUnscreen(v, e) ==
    CASE v = "POST_flags" -> e.USE_UNSCREEN_API
      [] OTHER -> TRUE

HARDCODED_AVATAR_URL == "https://storage.googleapis.com/captions-avatar-orc/result.mp4"
HARDCODED_UNSCREEN_URL == "https://storage.googleapis.com/unscreen/video.mp4"

\* ----------------------------------------------------------- the responses
NoResponse == [status |-> 0, error |-> "", finalVideoPath |-> "", finalVideoUrl |-> ""]

ErrorResponse(code, m) == [NoResponse EXCEPT !.status = code, !.error = m]

\* NextResponse.json({ finalVideoPath }) / NextResponse.json({ finalVideoUrl })
SuccessResponse(v, artifact) ==
    IF v = "POST_remote"
    THEN [NoResponse EXCEPT !.status = 200, !.finalVideoUrl = artifact]
    ELSE [NoResponse EXCEPT !.status = 200, !.finalVideoPath = artifact]

\* POST_remote, catch block: the message taken from error.response.data
ApiErrorMessage(d) ==
    IF Truthy(d.title)
    THEN d.title \o (IF Truthy(d.detail) THEN ": " \o d.detail ELSE "")
    ELSE OrElse(d.message, OrElse(d.error, d.msg))

\* CatchResponse without the { status } argument of NextResponse.json.
CatchResponseStatusOmitted(v, e) == ErrorResponse(200, e.message)

\* The catch block of the handler: the response for a thrown error.
CatchResponse(v, e) ==
    IF v = "POST_remote" /\ e.axios
    THEN ErrorResponse(IF e.status # 0 THEN e.status ELSE 500,
                       OrElse(ApiErrorMessage(e.data),
                              OrElse(e.message, "An API request failed.")))
    ELSE ErrorResponse(500, e.message)

\* --------------------------------------------------------------- the state
Stages == {"AvatarGeneration", "BackgroundRemoval", "ArtifactStaging",
           "Compositing", "CaptionOverlay"}

Delays == { d * POLLING_TIMEOUT_MS : d \in 0..MaxDelay }

VARIABLES
    variant,            \* which handler serves the request
    req,                \* the form fields
    env,                \* process.env
    aborted,            \* an external cancellation signal has been raised
    form,               \* VideoCreatorForm: isLoading, result and handleSubmit's position
    pc,                 \* the handler's position
    now,                \* Date.now(), ms since the request arrived
    thrown,             \* the error on its way to the handler's catch block
    avatarVideoUrl,     \* POST: avatarVideoUrl
    unscreenResultUrl,  \* POST: unscreenResultUrl
    renderedVideoUrl,   \* POST_remote: renderedVideoUrl
    tempDir,            \* POST: tempDir ("": not created)
    files,              \* size of each file written under tempDir (-1: none)
    fetched,            \* HTTP status of the download that wrote each file (0: none)
    ffmpeg,             \* how the ffmpeg process ran and its output path
    passed,             \* what the handler has handed to each later stage
    response,           \* the response returned to the caller
    responses,          \* number of responses returned
    \* the running poll call; it is discarded when the awaiting handler resumes
    attempt,            \* pollCaptionsResult / pollUnscreenResult: attempt
    startTime,          \* pollUntilDone: startTime
    settled,            \* how the call settled (Continue: it has not)
    checks,             \* status checks issued by the call
    sleeps,             \* inter-poll sleeps taken by the call
    pendingSeen,        \* pollUntilDone: answers with a non-terminal status
    thrownSeen,         \* pollUntilDone: status checks that threw (saturating)
    malformedSeen,      \* pollUntilDone: a success answer had no result url
    terminalSeen,       \* pollUntilDone: the last answer that was a success with
                        \* a result url or had a failure status (NoAnswer: none)
    \* history, read by the properties only
    stage,              \* outcome of each stage so far
    failedAt,           \* the stage whose failure ended the run ("": none)
    detail,             \* the error detail reported to the stage in progress
    invoked,            \* the external operations issued so far
    \* a second request, served concurrently by the same handler
    peer                \* its position, its tempDir and the files it wrote

inputs == <<variant, req, env, aborted, form>>
urls == <<avatarVideoUrl, unscreenResultUrl, renderedVideoUrl>>
fsys == <<tempDir, files, fetched, ffmpeg, passed>>
seen == <<pendingSeen, thrownSeen, malformedSeen, terminalSeen>>
pollv == <<attempt, startTime, settled, checks, sleeps, seen>>
hist == <<stage, failedAt, detail, invoked>>
out == <<response, responses>>
vars == <<inputs, pc, now, thrown, urls, fsys, pollv, hist, out, peer>>

FileNames == {"transparent.mp4", "background.jpg", "final.mp4"}

\* No ffmpeg process was started.
NoFfmpeg == [code |-> -1, ms |-> 0, stderrLen |-> 0, outputPath |-> ""]

\* A field that is undefined in a JavaScript object.
Undefined == "(undefined)"

\* useState<...>(null): no result.
NullResult == [null |-> TRUE, videoUrl |-> Undefined, error |-> Undefined]

\* VideoCreatorForm before a submission: useState(false), useState(null).
IdleForm == [pc |-> "idle", isLoading |-> FALSE, result |-> NullResult]

\* Nothing has been handed to a stage.
NoPassed == [video_url |-> "", submitted |-> 0, videoId |-> "", transparent |-> "",
             image |-> "", foreground |-> "", background |-> ""]

\* The second request before its step 2.
NoPeer == [pc |-> "Step2", tempDir |-> "", wrote |-> {}]

Init ==
    /\ variant \in Variants
    /\ req \in Requests
    /\ env \in Environments
    \* a handler that never reads the switches runs with them unset
    /\ variant # "POST_flags" => ~env.USE_CAPTIONS_API /\ ~env.USE_UNSCREEN_API
    /\ aborted = FALSE
    /\ form = IdleForm
    /\ pc = "Validating"
    /\ now = 0
    /\ thrown = NoError
    /\ avatarVideoUrl = ""
    /\ unscreenResultUrl = ""
    /\ renderedVideoUrl = ""
    /\ tempDir = ""
    /\ files = [f \in FileNames |-> -1]
    /\ fetched = [f \in FileNames |-> 0]
    /\ ffmpeg = NoFfmpeg
    /\ passed = NoPassed
    /\ response = NoResponse
    /\ responses = 0
    /\ attempt = 0
    /\ startTime = 0
    /\ settled = Continue
    /\ checks = 0
    /\ sleeps = 0
    /\ pendingSeen = 0
    /\ thrownSeen = 0
    /\ malformedSeen = FALSE
    /\ terminalSeen = NoAnswer
    /\ stage = [s \in Stages |-> "NotStarted"]
    /\ failedAt = ""
    /\ detail = ""
    /\ invoked = {}
    /\ peer = NoPeer

\* The handler returns r.
Respond(r) ==
    /\ response' = r
    /\ responses' = responses + 1
    /\ pc' = "returned"

\* Stage s throws e: control moves to the handler's catch block.
Fail(s, e) ==
    /\ thrown' = e
    /\ failedAt' = s
    /\ stage' = [stage EXCEPT ![s] = "Failed"]
    /\ pc' = "catch"

\* A poll call starts.
EnterPoll(t) ==
    /\ attempt' = 0
    /\ startTime' = t
    /\ settled' = Continue
    /\ checks' = 0
    /\ sleeps' = 0
    /\ pendingSeen' = 0
    /\ thrownSeen' = 0
    /\ malformedSeen' = FALSE
    /\ terminalSeen' = NoAnswer

\* The awaiting handler resumes and the poll call is gone.
LeavePoll == EnterPoll(0)

\* POST: formData, validation (and, in POST_remote, the API key check).
Validate ==
    /\ pc = "Validating"
    /\ IF ~ValidRequest(req)
       THEN Respond(ErrorResponse(400,
                IF variant = "POST_remote"
                THEN "Missing required fields: script, backgroundImageUrl, creatorId"
                ELSE "Missing required fields"))
       ELSE IF variant = "POST_remote" /\ ~KeysPresent(env)
       THEN Respond(ErrorResponse(500, "Server configuration error: API key missing."))
       ELSE pc' = "Step1" /\ UNCHANGED out
    /\ UNCHANGED <<inputs, peer, now, thrown, urls, fsys, pollv, hist>>

\* POST, catch block.
Catch ==
    /\ pc = "catch"
    /\ Respond(CatchResponse(variant, thrown))
    /\ UNCHANGED <<inputs, peer, now, thrown, urls, fsys, pollv, hist>>

\* ------------------------------------------- step 1: Avatar Generation
\* POST_flags with USE_CAPTIONS_API unset, POST_remote: the hard-coded url.
Step1Hardcoded ==
    /\ pc = "Step1"
    /\ ~UsesCaptions(variant, env)
    /\ avatarVideoUrl' = HARDCODED_AVATAR_URL
    /\ stage' = [stage EXCEPT !["AvatarGeneration"] = "Skipped"]
    /\ pc' = "Step2"
    /\ UNCHANGED <<inputs, peer, now, thrown, unscreenResultUrl, renderedVideoUrl,
                   fsys, pollv, failedAt, detail, invoked, out>>

\* CaptionsSubmit without await: the first status check is issued together
\* with the submit call.
CaptionsSubmitNotAwaited ==
    /\ pc = "Step1"
    /\ UsesCaptions(variant, env)
    /\ invoked' = invoked \cup {"captionsSubmit", "captionsPoll"}
    /\ \/ /\ pc' = "pollCaptionsResult"
          /\ stage' = [stage EXCEPT !["AvatarGeneration"] = "Running"]
          /\ UNCHANGED <<thrown, failedAt, detail>>
       \/ \E e \in HttpFailures :
            /\ Fail("AvatarGeneration", e)
            /\ detail' = e.message
    /\ UNCHANGED <<inputs, peer, now, urls, fsys, pollv, out>>

\* axios.post('https://api.captions.ai/api/creator/submit', ...)
CaptionsSubmit ==
    /\ pc = "Step1"
    /\ UsesCaptions(variant, env)
    /\ invoked' = invoked \cup {"captionsSubmit"}
    /\ \/ /\ pc' = "pollCaptionsResult"
          /\ stage' = [stage EXCEPT !["AvatarGeneration"] = "Running"]
          /\ UNCHANGED <<thrown, failedAt, detail>>
       \/ \E e \in HttpFailures :
            /\ Fail("AvatarGeneration", e)
            /\ detail' = e.message
    /\ UNCHANGED <<inputs, peer, now, urls, fsys, pollv, out>>

\* CaptionsPollCheck with the loop condition attempt <= maxAttempts.
CaptionsPollCheckInclusive ==
    /\ pc = "pollCaptionsResult"
    /\ attempt <= maxAttempts
    /\ invoked' = invoked \cup {"captionsPoll"}
    /\ checks' = checks + 1
    /\ \E a \in CaptionsAnswers :
         LET r == pollCaptionsResultStep(a) IN
         /\ settled' = r
         /\ pc' = IF r.kind = "continue" THEN "pollCaptionsSleep"
                  ELSE "pollCaptionsSettled"
         /\ detail' = IF a.thrown # NoError THEN a.thrown.message
                      ELSE IF a.status = "FAILED" THEN a.error
                      ELSE detail
    /\ UNCHANGED <<inputs, peer, now, thrown, urls, fsys, attempt, startTime, sleeps,
                   seen, stage, failedAt, out>>

\* pollCaptionsResult: one status check of the for loop.
CaptionsPollCheck ==
    /\ pc = "pollCaptionsResult"
    /\ attempt < maxAttempts
    /\ invoked' = invoked \cup {"captionsPoll"}
    /\ checks' = checks + 1
    /\ \E a \in CaptionsAnswers :
         LET r == pollCaptionsResultStep(a) IN
         /\ settled' = r
         /\ pc' = IF r.kind = "continue" THEN "pollCaptionsSleep"
                  ELSE "pollCaptionsSettled"
         /\ detail' = IF a.thrown # NoError THEN a.thrown.message
                      ELSE IF a.status = "FAILED" THEN a.error
                      ELSE detail
    /\ UNCHANGED <<inputs, peer, now, thrown, urls, fsys, attempt, startTime, sleeps,
                   seen, stage, failedAt, out>>

\* pollCaptionsResult: setTimeout(resolve, interval); attempt++
CaptionsPollSleep ==
    /\ pc = "pollCaptionsSleep"
    /\ sleeps' = sleeps + 1
    /\ attempt' = attempt + 1
    /\ pc' = "pollCaptionsResult"
    /\ UNCHANGED <<inputs, peer, now, thrown, urls, fsys, startTime, settled, checks,
                   seen, hist, out>>

\* pollCaptionsResult: the loop ran maxAttempts times.
CaptionsPollTimeout ==
    /\ pc = "pollCaptionsResult"
    /\ attempt >= maxAttempts
    /\ settled' = Throw(StdError("Video generation timed out"))
    /\ detail' = OrElse(detail, "Video generation timed out")
    /\ pc' = "pollCaptionsSettled"
    /\ UNCHANGED <<inputs, peer, now, thrown, urls, fsys, attempt, startTime, checks,
                   sleeps, seen, stage, failedAt, invoked, out>>

\* CaptionsPollAwait inside a try/catch of its own that logs and goes on.
CaptionsPollAwaitSwallows ==
    /\ pc = "pollCaptionsSettled"
    /\ avatarVideoUrl' = settled.value
    /\ stage' = [stage EXCEPT !["AvatarGeneration"] =
                    IF settled.kind = "return" THEN "Succeeded" ELSE "Failed"]
    /\ pc' = "Step2"
    /\ LeavePoll
    /\ UNCHANGED <<inputs, peer, now, thrown, unscreenResultUrl, renderedVideoUrl, fsys,
                   failedAt, detail, invoked, out>>

\* POST: avatarVideoUrl = await pollCaptionsResult(...)
CaptionsPollAwait ==
    /\ pc = "pollCaptionsSettled"
    /\ IF settled.kind = "return"
       THEN /\ avatarVideoUrl' = settled.value
            /\ stage' = [stage EXCEPT !["AvatarGeneration"] = "Succeeded"]
            /\ pc' = "Step2"
            /\ UNCHANGED <<thrown, failedAt>>
       ELSE /\ Fail("AvatarGeneration", settled.err)
            /\ UNCHANGED avatarVideoUrl
    /\ LeavePoll
    /\ UNCHANGED <<inputs, peer, now, unscreenResultUrl, renderedVideoUrl, fsys,
                   detail, invoked, out>>

\* ------------------------------------- step 2: Background Removal (local)
\* POST_flags with USE_UNSCREEN_API unset: the hard-coded url.
Step2Hardcoded ==
    /\ pc = "Step2"
    /\ ~UsesUnscreen(variant, env)
    /\ unscreenResultUrl' = HARDCODED_UNSCREEN_URL
    /\ stage' = [stage EXCEPT !["BackgroundRemoval"] = "Skipped"]
    /\ pc' = "mkdir"
    /\ UNCHANGED <<inputs, peer, now, thrown, avatarVideoUrl, renderedVideoUrl,
                   fsys, pollv, failedAt, detail, invoked, out>>

\* UnscreenSubmit that sends a fixed video_url, whatever step 1 produced.
UnscreenSubmitFixedUrl ==
    /\ pc = "Step2"
    /\ variant # "POST_remote"
    /\ UsesUnscreen(variant, env)
    /\ invoked' = invoked \cup {"unscreenSubmit"}
    /\ passed' = [passed EXCEPT !.video_url = HARDCODED_AVATAR_URL]
    /\ \/ /\ pc' = "pollUnscreenResult"
          /\ stage' = [stage EXCEPT !["BackgroundRemoval"] = "Running"]
          /\ detail' = ""
          /\ UNCHANGED <<thrown, failedAt>>
       \/ \E e \in HttpFailures :
            /\ Fail("BackgroundRemoval", e)
            /\ detail' = e.message
    /\ UNCHANGED <<inputs, peer, now, urls, tempDir, files, fetched, ffmpeg, pollv, out>>

\* POST_flags, POST_local: axios.post('https://api.unscreen.com/v1.0/videos')
UnscreenSubmit ==
    /\ pc = "Step2"
    /\ variant # "POST_remote"
    /\ UsesUnscreen(variant, env)
    /\ invoked' = invoked \cup {"unscreenSubmit"}
    /\ passed' = [passed EXCEPT !.video_url = avatarVideoUrl]
    /\ \/ /\ pc' = "pollUnscreenResult"
          /\ stage' = [stage EXCEPT !["BackgroundRemoval"] = "Running"]
          /\ detail' = ""
          /\ UNCHANGED <<thrown, failedAt>>
       \/ \E e \in HttpFailures :
            /\ Fail("BackgroundRemoval", e)
            /\ detail' = e.message
    /\ UNCHANGED <<inputs, peer, now, urls, tempDir, files, fetched, ffmpeg, pollv, out>>

\* A status with which the Unscreen job reports that it has failed.
UnscreenFailureStatus(st) == st \in {"error", "failed"}

\* pollUnscreenResult: one status check of the for loop.
UnscreenPollCheck ==
    /\ pc = "pollUnscreenResult"
    /\ attempt < maxAttempts
    /\ invoked' = invoked \cup {"unscreenPoll"}
    /\ checks' = checks + 1
    /\ \E a \in UnscreenAnswers :
         LET r == pollUnscreenResultStep(a) IN
         /\ settled' = r
         /\ pc' = IF r.kind = "continue" THEN "pollUnscreenSleep"
                  ELSE "pollUnscreenSettled"
         /\ detail' = IF a.thrown # NoError THEN a.thrown.message
                      ELSE IF UnscreenFailureStatus(a.status) /\ Truthy(a.error)
                      THEN a.error
                      ELSE detail
    /\ UNCHANGED <<inputs, peer, now, thrown, urls, fsys, attempt, startTime, sleeps,
                   seen, stage, failedAt, out>>

\* pollUnscreenResult: setTimeout(resolve, interval); attempt++
UnscreenPollSleep ==
    /\ pc = "pollUnscreenSleep"
    /\ sleeps' = sleeps + 1
    /\ attempt' = attempt + 1
    /\ pc' = "pollUnscreenResult"
    /\ UNCHANGED <<inputs, peer, now, thrown, urls, fsys, startTime, settled, checks,
                   seen, hist, out>>

\* pollUnscreenResult: the loop ran maxAttempts times.
UnscreenPollTimeout ==
    /\ pc = "pollUnscreenResult"
    /\ attempt >= maxAttempts
    /\ settled' = Throw(StdError("Background removal timed out"))
    /\ detail' = OrElse(detail, "Background removal timed out")
    /\ pc' = "pollUnscreenSettled"
    /\ UNCHANGED <<inputs, peer, now, thrown, urls, fsys, attempt, startTime, checks,
                   sleeps, seen, stage, failedAt, invoked, out>>

\* UnscreenPollAwait inside a try/catch of its own that logs and goes on.
UnscreenPollAwaitSwallows ==
    /\ pc = "pollUnscreenSettled"
    /\ unscreenResultUrl' = settled.value
    /\ stage' = [stage EXCEPT !["BackgroundRemoval"] =
                    IF settled.kind = "return" THEN "Succeeded" ELSE "Failed"]
    /\ pc' = "mkdir"
    /\ LeavePoll
    /\ UNCHANGED <<inputs, peer, now, thrown, avatarVideoUrl, renderedVideoUrl, fsys,
                   failedAt, detail, invoked, out>>

\* POST: unscreenResultUrl = await pollUnscreenResult(...)
UnscreenPollAwait ==
    /\ pc = "pollUnscreenSettled"
    /\ IF settled.kind = "return"
       THEN /\ unscreenResultUrl' = settled.value
            /\ stage' = [stage EXCEPT !["BackgroundRemoval"] = "Succeeded"]
            /\ pc' = "mkdir"
            /\ UNCHANGED <<thrown, failedAt>>
       ELSE /\ Fail("BackgroundRemoval", settled.err)
            /\ UNCHANGED unscreenResultUrl
    /\ LeavePoll
    /\ UNCHANGED <<inputs, peer, now, avatarVideoUrl, renderedVideoUrl, fsys,
                   detail, invoked, out>>

\* --------------------------------- steps 2.1 - 2.3: staging, compositing
BodySizes == {0, 2048}

\* Mkdir with the downloads moved before it: the directory is not yet
\* created when the first file is written.
MkdirAfterDownloads ==
    /\ pc = "mkdir"
    /\ invoked' = invoked \cup {"mkdir"}
    /\ \E d \in Delays : now' = now + d
    /\ stage' = [stage EXCEPT !["ArtifactStaging"] = "Running"]
    /\ pc' = "curl"
    /\ UNCHANGED <<inputs, peer, thrown, urls, tempDir, files, fetched, ffmpeg, passed, pollv,
                   failedAt, detail, out>>

\* fs.promises.mkdir(path.join(process.cwd(), 'temp', Date.now().toString()));
\* the time the polls took is drawn here, where the clock is read.
Mkdir ==
    /\ pc = "mkdir"
    /\ invoked' = invoked \cup {"mkdir"}
    /\ \E d \in Delays :
         /\ now' = now + d
         /\ tempDir' = "temp/" \o ToString(now')
    /\ stage' = [stage EXCEPT !["ArtifactStaging"] = "Running"]
    /\ pc' = "curl"
    /\ UNCHANGED <<inputs, peer, thrown, urls, files, fetched, ffmpeg, passed, pollv, failedAt,
                   detail, out>>

\* The exits of curl -L <url> -o <path>: without --fail curl exits 0 on any
\* HTTP answer and writes its body.
CurlExits ==
    { [code |-> 0, http |-> h, size |-> n] : h \in {200, 403}, n \in BodySizes }
    \cup { [code |-> 6, http |-> 0, size |-> -1] }

\* execAsync(`curl -L ... "${unscreenResultUrl}" -o "${transparentVideoPath}"`)
CurlDownload ==
    /\ pc = "curl"
    /\ invoked' = invoked \cup {"curl"}
    /\ passed' = [passed EXCEPT !.transparent = unscreenResultUrl]
    /\ \E x \in CurlExits :
         IF x.code = 0
         THEN /\ files' = [files EXCEPT !["transparent.mp4"] = x.size]
              /\ fetched' = [fetched EXCEPT !["transparent.mp4"] = x.http]
              /\ pc' = "downloadBackgroundImage"
              /\ UNCHANGED <<thrown, failedAt, detail, stage>>
         ELSE /\ Fail("ArtifactStaging", StdError("Command failed: curl"))
              /\ detail' = "Command failed: curl"
              /\ UNCHANGED <<files, fetched>>
    /\ UNCHANGED <<inputs, peer, now, urls, tempDir, ffmpeg, pollv, out>>

\* The answers to the GET of the background image: an HTTP status and a body
\* length, or no answer at all (status 0).
ImageAnswers ==
    { [http |-> h, size |-> n] : h \in {200, 204, 404}, n \in BodySizes }
    \cup { [http |-> 0, size |-> 0] }

\* ImageStatusAccepted as axios validates by default: any 2xx status.
ImageStatusAccepted2xx(h) == h >= 200 /\ h < 300

\* downloadBackgroundImage: validateStatus: (status) => status === 200
ImageStatusAccepted(h) == h = 200

\* downloadBackgroundImageTry without the test of stats.size.
downloadBackgroundImageTryNoStat(x) ==
    IF x.http = 0 THEN AxiosNetworkError
    ELSE IF ~ImageStatusAccepted(x.http) THEN AxiosHttpError(x.http, NoData)
    ELSE NoError

\* downloadBackgroundImage, the try block: the error it throws for answer x
\* (NoError: it returns backgroundPath).
downloadBackgroundImageTry(x) ==
    IF x.http = 0 THEN AxiosNetworkError
    ELSE IF ~ImageStatusAccepted(x.http) THEN AxiosHttpError(x.http, NoData)
    ELSE IF x.size = 0 THEN StdError("Downloaded background image is empty")
    ELSE NoError

\* downloadBackgroundImage, the catch block.
downloadBackgroundImageCatch(e) ==
    StdError("Failed to download background image: " \o e.message)

\* downloadBackgroundImage(backgroundImageUrl, tempDir)
DownloadBackgroundImage ==
    /\ pc = "downloadBackgroundImage"
    /\ invoked' = invoked \cup {"downloadBackgroundImage"}
    /\ passed' = [passed EXCEPT !.image = req.backgroundImageUrl]
    /\ \E x \in ImageAnswers :
         LET e == downloadBackgroundImageTry(x) IN
         /\ IF x.http # 0 /\ ImageStatusAccepted(x.http)
            THEN /\ files' = [files EXCEPT !["background.jpg"] = x.size]
                 /\ fetched' = [fetched EXCEPT !["background.jpg"] = x.http]
            ELSE UNCHANGED <<files, fetched>>
         /\ IF e = NoError
            THEN /\ stage' = [stage EXCEPT !["ArtifactStaging"] = "Succeeded"]
                 /\ pc' = "compositeVideoWithBackground"
                 /\ UNCHANGED <<thrown, failedAt, detail>>
            ELSE /\ Fail("ArtifactStaging", downloadBackgroundImageCatch(e))
                 /\ detail' = e.message
    /\ UNCHANGED <<inputs, peer, now, urls, tempDir, ffmpeg, pollv, out>>

\* compositeVideoWithBackground: the options of execAsync.
maxBuffer == 1024 * 1024 * 10
timeout == 30000

\* How the ffmpeg child process runs: its exit code, the time it needs (ms)
\* and the bytes it writes to stderr.
FfmpegExits ==
    [code : {0, 1}, ms : {1000, 2 * timeout}, stderrLen : {0, maxBuffer, maxBuffer + 1}]

\* execAsyncError with the test of the exit code only.
execAsyncErrorCodeOnly(x) ==
    IF x.code # 0 THEN "Command failed: ffmpeg" ELSE ""

\* execAsync(command, { maxBuffer, timeout }): the message of the error it
\* rejects with ("": it resolves).  The child is killed when its output
\* exceeds maxBuffer or when it runs longer than timeout.
execAsyncError(x) ==
    IF x.stderrLen > maxBuffer THEN "stderr maxBuffer length exceeded"
    ELSE IF x.ms > timeout \/ x.code # 0 THEN "Command failed: ffmpeg"
    ELSE ""

\* compositeVideoWithBackground, the catch block.
compositeVideoWithBackgroundCatch(m) ==
    StdError("Failed to composite video: " \o m)

\* compositeVideoWithBackground(transparentVideoPath, backgroundPath, finalVideoPath)
CompositeVideoWithBackground ==
    /\ pc = "compositeVideoWithBackground"
    /\ invoked' = invoked \cup {"compositeVideoWithBackground"}
    /\ passed' = [passed EXCEPT !.foreground = tempDir \o "/transparent.mp4",
                                !.background = tempDir \o "/background.jpg"]
    /\ \E x \in FfmpegExits :
         /\ ffmpeg' = [code |-> x.code, ms |-> x.ms, stderrLen |-> x.stderrLen,
                       outputPath |-> tempDir \o "/final.mp4"]
         /\ IF execAsyncError(x) = ""
            THEN /\ files' = [files EXCEPT !["final.mp4"] = 4096]
                 /\ stage' = [stage EXCEPT !["Compositing"] = "Succeeded"]
                 /\ pc' = "return"
                 /\ UNCHANGED <<thrown, failedAt, detail>>
            ELSE /\ Fail("Compositing",
                         compositeVideoWithBackgroundCatch(execAsyncError(x)))
                 /\ detail' = execAsyncError(x)
                 /\ UNCHANGED files
    /\ UNCHANGED <<inputs, peer, now, urls, tempDir, fetched, pollv, out>>

\* ReturnFinalVideoPath that returns a path outside the run's directory.
ReturnFinalVideoPathShared ==
    /\ pc = "return"
    /\ Respond(SuccessResponse(variant, "temp/final.mp4"))
    /\ UNCHANGED <<inputs, peer, now, thrown, urls, fsys, pollv, hist>>

\* POST_flags, POST_local: return NextResponse.json({ finalVideoPath })
ReturnFinalVideoPath ==
    /\ pc = "return"
    /\ Respond(SuccessResponse(variant, tempDir \o "/final.mp4"))
    /\ UNCHANGED <<inputs, peer, now, thrown, urls, fsys, pollv, hist>>

\* ------------------------------------ step 2: Background Removal (remote)
\* The arguments of the pollUntilDone call in POST_remote.
UnscreenSuccessStatus == "done"
UnscreenFailurePrefix == "error"

\* The ids a 2xx answer to the Unscreen submit carries in data.data.id
\* ("": none).
UnscreenVideoIds == {"", "vid-1"}

\* UnscreenSubmitRemote without the test of unscreenVideoId.
UnscreenSubmitRemoteNoIdCheck ==
    /\ pc = "Step2"
    /\ variant = "POST_remote"
    /\ invoked' = invoked \cup {"unscreenSubmit"}
    /\ \E d \in Delays :
         /\ now' = now + d
         /\ \/ \E id \in UnscreenVideoIds :
                 /\ passed' = [passed EXCEPT !.video_url = avatarVideoUrl,
                                             !.submitted = 200, !.videoId = id]
                 /\ pc' = "pollUntilDone"
                 /\ EnterPoll(now')
                 /\ stage' = [stage EXCEPT !["BackgroundRemoval"] = "Running"]
                 /\ detail' = ""
                 /\ UNCHANGED <<thrown, failedAt>>
            \/ \E e \in HttpFailures :
                 /\ passed' = [passed EXCEPT !.video_url = avatarVideoUrl]
                 /\ Fail("BackgroundRemoval", e)
                 /\ detail' = OrElse(ApiErrorMessage(e.data), e.message)
                 /\ UNCHANGED pollv
    /\ UNCHANGED <<inputs, peer, urls, tempDir, files, fetched, ffmpeg, out>>

\* POST_remote: axios.post('https://api.unscreen.com/v1.0/videos'), the video
\* id, and the call of pollUntilDone (const startTime = Date.now()).
UnscreenSubmitRemote ==
    /\ pc = "Step2"
    /\ variant = "POST_remote"
    /\ invoked' = invoked \cup {"unscreenSubmit"}
    /\ \E d \in Delays :
         /\ now' = now + d
         /\ \/ \E id \in UnscreenVideoIds :
                 /\ passed' = [passed EXCEPT !.video_url = avatarVideoUrl,
                                             !.submitted = 200, !.videoId = id]
                 /\ IF Truthy(id)
                    THEN /\ pc' = "pollUntilDone"
                         /\ EnterPoll(now')
                         /\ stage' = [stage EXCEPT !["BackgroundRemoval"] = "Running"]
                         /\ detail' = ""
                         /\ UNCHANGED <<thrown, failedAt>>
                    ELSE /\ Fail("BackgroundRemoval",
                                 StdError("Unscreen submission succeeded but failed to get video ID."))
                         /\ detail' = "Unscreen submission succeeded but failed to get video ID."
                         /\ UNCHANGED pollv
            \/ \E e \in HttpFailures :
                 /\ passed' = [passed EXCEPT !.video_url = avatarVideoUrl]
                 /\ Fail("BackgroundRemoval", e)
                 /\ detail' = OrElse(ApiErrorMessage(e.data), e.message)
                 /\ UNCHANGED pollv
    /\ UNCHANGED <<inputs, peer, urls, tempDir, files, fetched, ffmpeg, out>>

\* pollUntilDone: the while condition holds, checkStatusFn() and the try block.
PollUntilDoneCheck ==
    /\ pc = "pollUntilDone"
    /\ pollUntilDoneRunning(startTime, now)
    /\ invoked' = invoked \cup {"checkUnscreenStatus"}
    /\ checks' = checks + 1
    /\ \E d \in Delays, a \in UnscreenAnswers :
         LET r == pollUntilDoneStep(a, UnscreenSuccessStatus, UnscreenFailurePrefix) IN
         /\ now' = now + d
         /\ settled' = r
         /\ pc' = IF r.kind = "continue" THEN "pollUntilDoneSleep"
                  ELSE "pollUntilDoneSettled"
         /\ detail' = IF UnscreenFailureStatus(a.status) THEN a.error ELSE detail
         /\ IF a.thrown # NoError
            THEN /\ thrownSeen' = IF thrownSeen < MaxThrownSeen
                                  THEN thrownSeen + 1 ELSE thrownSeen
                 /\ UNCHANGED <<pendingSeen, malformedSeen, terminalSeen>>
            ELSE IF a.status = UnscreenSuccessStatus
            THEN /\ malformedSeen' = (malformedSeen \/ ~Truthy(a.url))
                 /\ terminalSeen' = IF Truthy(a.url) THEN a ELSE terminalSeen
                 /\ UNCHANGED <<pendingSeen, thrownSeen>>
            ELSE IF StartsWith(a.status, UnscreenFailurePrefix)
            THEN /\ terminalSeen' = a
                 /\ UNCHANGED <<pendingSeen, thrownSeen, malformedSeen>>
            ELSE /\ pendingSeen' = pendingSeen + 1
                 /\ UNCHANGED <<thrownSeen, malformedSeen, terminalSeen>>
    /\ UNCHANGED <<inputs, peer, thrown, urls, fsys, attempt, startTime, sleeps,
                   stage, failedAt, out>>

\* pollUntilDone: setTimeout(resolve, POLLING_INTERVAL_MS)
PollUntilDoneSleep ==
    /\ pc = "pollUntilDoneSleep"
    /\ now' = now + POLLING_INTERVAL_MS
    /\ sleeps' = sleeps + 1
    /\ pc' = "pollUntilDone"
    /\ UNCHANGED <<inputs, peer, thrown, urls, fsys, attempt, startTime, settled,
                   checks, seen, hist, out>>

\* pollUntilDone: the while condition fails.
PollUntilDoneTimeout ==
    /\ pc = "pollUntilDone"
    /\ ~pollUntilDoneRunning(startTime, now)
    /\ settled' = Throw(PollingTimedOutError)
    /\ detail' = OrElse(detail, PollingTimedOutError.message)
    /\ pc' = "pollUntilDoneSettled"
    /\ UNCHANGED <<inputs, peer, now, thrown, urls, fsys, attempt, startTime, checks,
                   sleeps, seen, stage, failedAt, invoked, out>>

\* PollUntilDoneAwait that submits the job again when the poll has failed.
PollUntilDoneAwaitResubmits ==
    /\ pc = "pollUntilDoneSettled"
    /\ IF settled.kind = "return"
       THEN /\ unscreenResultUrl' = settled.value
            /\ stage' = [stage EXCEPT !["BackgroundRemoval"] = "Succeeded"]
            /\ pc' = "Step3"
            /\ UNCHANGED <<thrown, failedAt>>
       ELSE /\ pc' = "Step2"
            /\ UNCHANGED <<thrown, failedAt, stage, unscreenResultUrl>>
    /\ LeavePoll
    /\ UNCHANGED <<inputs, peer, now, avatarVideoUrl, renderedVideoUrl, fsys,
                   detail, invoked, out>>

\* POST_remote: const unscreenResultUrl = await pollUntilDone(...)
PollUntilDoneAwait ==
    /\ pc = "pollUntilDoneSettled"
    /\ IF settled.kind = "return"
       THEN /\ unscreenResultUrl' = settled.value
            /\ stage' = [stage EXCEPT !["BackgroundRemoval"] = "Succeeded"]
            /\ pc' = "Step3"
            /\ UNCHANGED <<thrown, failedAt>>
       ELSE /\ Fail("BackgroundRemoval", settled.err)
            /\ UNCHANGED unscreenResultUrl
    /\ LeavePoll
    /\ UNCHANGED <<inputs, peer, now, avatarVideoUrl, renderedVideoUrl, fsys,
                   detail, invoked, out>>

\* ------------------------------------------ steps 3 and 4 (remote)
\* axios.post('https://api.creatomate.com/v1/renders', ...)
CreatomateRender ==
    /\ pc = "Step3"
    /\ invoked' = invoked \cup {"creatomateRender"}
    /\ passed' = [passed EXCEPT !.image = req.backgroundImageUrl,
                                !.transparent = unscreenResultUrl]
    /\ \/ /\ renderedVideoUrl' = "https://creatomate/render.mp4"
          /\ stage' = [stage EXCEPT !["Compositing"] = "Succeeded"]
          /\ pc' = "Step4"
          /\ UNCHANGED <<thrown, failedAt, detail>>
       \/ \E e \in HttpFailures :
            /\ Fail("Compositing", e)
            /\ detail' = OrElse(ApiErrorMessage(e.data), e.message)
            /\ UNCHANGED renderedVideoUrl
    /\ UNCHANGED <<inputs, peer, now, avatarVideoUrl, unscreenResultUrl, tempDir, files,
                   fetched, ffmpeg, pollv, out>>

\* axios.post('https://api.captions.ai/v1/ai-edit', ...) and the return of
\* { finalVideoUrl }, the video_url of the answer (CaptionsEditResponse).
CaptionsAiEdit ==
    /\ pc = "Step4"
    /\ invoked' = invoked \cup {"captionsAiEdit"}
    /\ \/ /\ Respond(SuccessResponse(variant, "https://captions/final.mp4"))
          /\ stage' = [stage EXCEPT !["CaptionOverlay"] = "Succeeded"]
          /\ UNCHANGED <<thrown, failedAt, detail>>
       \/ \E e \in HttpFailures :
            /\ Fail("CaptionOverlay", e)
            /\ detail' = OrElse(ApiErrorMessage(e.data), e.message)
            /\ UNCHANGED out
    /\ UNCHANGED <<inputs, peer, now, urls, fsys, pollv>>

\* ------------------------------------------------------ the specification
Next ==
    \/ Validate
    \/ Step1Hardcoded
    \/ CaptionsSubmit
    \/ CaptionsPollCheck
    \/ CaptionsPollSleep
    \/ CaptionsPollTimeout
    \/ CaptionsPollAwait
    \/ Step2Hardcoded
    \/ UnscreenSubmit
    \/ UnscreenPollCheck
    \/ UnscreenPollSleep
    \/ UnscreenPollTimeout
    \/ UnscreenPollAwait
    \/ Mkdir
    \/ CurlDownload
    \/ DownloadBackgroundImage
    \/ CompositeVideoWithBackground
    \/ ReturnFinalVideoPath
    \/ UnscreenSubmitRemote
    \/ PollUntilDoneCheck
    \/ PollUntilDoneSleep
    \/ PollUntilDoneTimeout
    \/ PollUntilDoneAwait
    \/ CreatomateRender
    \/ CaptionsAiEdit
    \/ Catch

Spec == Init /\ [][Next]_vars

\* Every await of the handler settles: a handler that can take a step takes it.
FairSpec == Spec /\ WF_vars(Next)

\* ------------------------------------------------- two concurrent requests
\* The second request, from its step 2 on (part_000:276-334); both requests
\* read the same environment and clock and write to the same disk.  Its poll
\* is followed without a count of attempts: the loop may end after any sleep.

\* The second request leaves no step to take.
PeerDone == peer.pc \in {"after final.mp4", "returned"}

\* if (process.env.USE_UNSCREEN_API) { submit } else { hard-coded url }
PeerStep2 ==
    /\ peer.pc = "Step2"
    /\ IF env.USE_UNSCREEN_API
       THEN \E ok \in BOOLEAN :
              peer' = [peer EXCEPT !.pc = IF ok THEN "pollUnscreenResult" ELSE "returned"]
       ELSE peer' = [peer EXCEPT !.pc = "mkdir"]
    /\ UNCHANGED <<inputs, pc, now, thrown, urls, fsys, pollv, hist, out>>

\* PeerUnscreenPollCheck that cannot run while the first request sleeps: the
\* sleep holds the thread.
PeerUnscreenPollCheckBlocked ==
    /\ peer.pc = "pollUnscreenResult"
    /\ pc # "pollUnscreenSleep"
    /\ \E a \in UnscreenAnswers :
         LET r == pollUnscreenResultStep(a) IN
         peer' = [peer EXCEPT !.pc = IF r.kind = "continue" THEN "pollUnscreenSleep"
                                     ELSE IF r.kind = "return" THEN "mkdir"
                                     ELSE "returned"]
    /\ UNCHANGED <<inputs, pc, now, thrown, urls, fsys, pollv, hist, out>>

\* pollUnscreenResult of the second request: one status check.
PeerUnscreenPollCheck ==
    /\ peer.pc = "pollUnscreenResult"
    /\ \E a \in UnscreenAnswers :
         LET r == pollUnscreenResultStep(a) IN
         peer' = [peer EXCEPT !.pc = IF r.kind = "continue" THEN "pollUnscreenSleep"
                                     ELSE IF r.kind = "return" THEN "mkdir"
                                     ELSE "returned"]
    /\ UNCHANGED <<inputs, pc, now, thrown, urls, fsys, pollv, hist, out>>

\* pollUnscreenResult of the second request: the sleep, and after the last
\* one the timeout error.
PeerUnscreenPollSleep ==
    /\ peer.pc = "pollUnscreenSleep"
    /\ \E last \in BOOLEAN :
         peer' = [peer EXCEPT !.pc = IF last THEN "returned" ELSE "pollUnscreenResult"]
    /\ UNCHANGED <<inputs, pc, now, thrown, urls, fsys, pollv, hist, out>>

\* The second request writes n bytes to file f of its directory.
PeerWrites(f, n) ==
    /\ peer' = [peer EXCEPT !.wrote = @ \cup {f}, !.pc = "after " \o f]
    /\ IF peer.tempDir = tempDir
       THEN /\ files' = [files EXCEPT ![f] = n]
            /\ fetched' = [fetched EXCEPT ![f] = 200]
       ELSE UNCHANGED <<files, fetched>>
    /\ UNCHANGED <<inputs, pc, now, thrown, urls, tempDir, ffmpeg, passed, pollv, hist, out>>

\* fs.promises.mkdir(path.join(process.cwd(), 'temp', Date.now().toString()),
\* { recursive: true }): no error when the directory exists.
PeerMkdir ==
    /\ peer.pc = "mkdir"
    /\ peer' = [peer EXCEPT !.tempDir = "temp/" \o ToString(now), !.pc = "curl"]
    /\ UNCHANGED <<inputs, pc, now, thrown, urls, fsys, pollv, hist, out>>

\* curl -L ... -o tempDir/transparent.mp4
PeerCurlDownload ==
    /\ peer.pc = "curl"
    /\ PeerWrites("transparent.mp4", 2048)

\* downloadBackgroundImage(backgroundImageUrl, tempDir)
PeerDownloadBackgroundImage ==
    /\ peer.pc = "after transparent.mp4"
    /\ PeerWrites("background.jpg", 2048)

\* compositeVideoWithBackground(..., tempDir/final.mp4)
PeerCompositeVideoWithBackground ==
    /\ peer.pc = "after background.jpg"
    /\ PeerWrites("final.mp4", 4096)

\* A valid request to POST_flags with USE_CAPTIONS_API unset and the keys set.
ConcurrentInit ==
    /\ Init
    /\ variant = "POST_flags"
    /\ ValidRequest(req)
    /\ ~env.USE_CAPTIONS_API
    /\ KeysPresent(env)

\* The steps of the first request.
RunNext ==
    \/ Validate
    \/ Step1Hardcoded
    \/ Step2Hardcoded
    \/ UnscreenSubmit
    \/ UnscreenPollCheck
    \/ UnscreenPollSleep
    \/ UnscreenPollTimeout
    \/ UnscreenPollAwait
    \/ Mkdir
    \/ CurlDownload
    \/ DownloadBackgroundImage
    \/ CompositeVideoWithBackground
    \/ ReturnFinalVideoPath
    \/ Catch

\* The steps of the second request.
PeerNext ==
    \/ PeerStep2
    \/ PeerUnscreenPollCheck
    \/ PeerUnscreenPollSleep
    \/ PeerMkdir
    \/ PeerCurlDownload
    \/ PeerDownloadBackgroundImage
    \/ PeerCompositeVideoWithBackground

ConcurrentNext ==
    \/ RunNext
    \/ PeerNext

ConcurrentSpec == ConcurrentInit /\ [][ConcurrentNext]_vars

\* ------------------------------------------------ a cancellation signal
\* The positions at which the handler is suspended in a poll or on ffmpeg.
SuspensionPoints ==
    {"pollCaptionsResult", "pollCaptionsSleep", "pollUnscreenResult",
     "pollUnscreenSleep", "pollUntilDone", "pollUntilDoneSleep",
     "compositeVideoWithBackground"}

\* The client raises a cancellation signal while the handler is suspended.
\* No handler, poll or execAsync call takes or reads a signal: nothing but
\* the signal changes.
Abort ==
    /\ pc \in SuspensionPoints
    /\ ~aborted
    /\ aborted' = TRUE
    /\ UNCHANGED <<variant, req, env, form, pc, now, thrown, urls, fsys, pollv, hist, out, peer>>

CancelNext ==
    \/ Next
    \/ Abort

CancelSpec == Init /\ [][CancelNext]_vars

\* ------------------------------------------------------ VideoCreatorForm
\* data.<field> of the parsed body: a field the handler did not put into the
\* body is undefined.
BodyField(x) == IF x = "" THEN Undefined ELSE x

\* response.ok
ResponseOk(r) == r.status >= 200 /\ r.status <= 299

\* handleSubmit: the result set for the handler's response r; the error
\* thrown in the try block is caught and its message set.
handleSubmitResult(r) ==
    IF ~ResponseOk(r)
    THEN [null |-> FALSE, videoUrl |-> Undefined,
          error |-> OrElse(r.error, "HTTP error! status: " \o ToString(r.status))]
    ELSE [null |-> FALSE, videoUrl |-> BodyField(r.finalVideoUrl), error |-> Undefined]

\* handleSubmit up to await fetch(...): setIsLoading(true); setResult(null).
HandleSubmit ==
    /\ form.pc = "idle"
    /\ form' = [pc |-> "fetching", isLoading |-> TRUE, result |-> NullResult]
    /\ UNCHANGED <<variant, req, env, aborted, pc, now, thrown, urls, fsys, pollv, hist,
                   out, peer>>

\* handleSubmit from the handler's response on: response.json(), the test of
\* response.ok, setResult, and setIsLoading(false) in finally.
HandleSubmitResponse ==
    /\ form.pc = "fetching"
    /\ pc = "returned"
    /\ form' = [pc |-> "done", isLoading |-> FALSE, result |-> handleSubmitResult(response)]
    /\ UNCHANGED <<variant, req, env, aborted, pc, now, thrown, urls, fsys, pollv, hist,
                   out, peer>>

\* handleSubmit when fetch rejects (the connection is lost): catch and finally.
HandleSubmitFetchRejects ==
    /\ form.pc = "fetching"
    /\ form' = [pc |-> "done", isLoading |-> FALSE,
                result |-> [null |-> FALSE, videoUrl |-> Undefined,
                            error |-> "Failed to fetch"]]
    /\ UNCHANGED <<variant, req, env, aborted, pc, now, thrown, urls, fsys, pollv, hist,
                   out, peer>>

\* The handler runs once the form has sent the request.
FormNext ==
    \/ HandleSubmit
    \/ form.pc # "idle" /\ Next
    \/ HandleSubmitResponse
    \/ HandleSubmitFetchRejects

FormSpec == Init /\ [][FormNext]_vars

\* ================================================================ claims
IsSuccess(r) ==
    r.status = 200 /\ r.error = "" /\ (Truthy(r.finalVideoPath) \/ Truthy(r.finalVideoUrl))

IsError(r) ==
    r.status >= 400 /\ Truthy(r.error) /\ r.finalVideoPath = "" /\ r.finalVideoUrl = ""

OneOutcomeAtMost ==
    /\ responses <= 1
    /\ responses = 0 => response = NoResponse /\ pc # "returned"
    /\ responses = 1 => pc = "returned" /\ (IsSuccess(response) # IsError(response))

StageOrder(v) ==
    IF v = "POST_remote"
    THEN <<"AvatarGeneration", "BackgroundRemoval", "Compositing", "CaptionOverlay">>
    ELSE <<"AvatarGeneration", "BackgroundRemoval", "ArtifactStaging", "Compositing">>

\* The external operations of a stage; the first is the one that begins it.
StageOps(s) ==
    CASE s = "AvatarGeneration" -> {"captionsSubmit", "captionsPoll"}
      [] s = "BackgroundRemoval" -> {"unscreenSubmit", "unscreenPoll", "checkUnscreenStatus"}
      [] s = "ArtifactStaging" -> {"mkdir", "curl", "downloadBackgroundImage"}
      [] s = "Compositing" -> {"compositeVideoWithBackground", "creatomateRender"}
      [] OTHER -> {"captionsAiEdit"}

Started(s) == StageOps(s) \cap invoked # {}

\* A stage of the run has failed: a poll settled with an error, or an error is
\* on its way to, or has passed, the catch block.
Failing == settled.kind = "throw" \/ pc = "catch" \/ failedAt # ""

\* Stage j of the handler has begun only with every earlier stage in one of `ok`.
StagesInOrder(ok) ==
    LET o == StageOrder(variant) IN
    /\ \A j \in 2..Len(o) : Started(o[j]) => \A i \in 1..(j - 1) : stage[o[i]] \in ok
    /\ \A s \in Stages : Started(s) => \E j \in 1..Len(o) : o[j] = s
    /\ "captionsPoll" \in invoked => "captionsSubmit" \in invoked
    /\ {"unscreenPoll", "checkUnscreenStatus"} \cap invoked # {} => "unscreenSubmit" \in invoked

\* After the first failure no operation is issued: the handler only moves to
\* its catch block and returns.
NothingAfterFailure ==
    [][Failing => /\ invoked' = invoked
                  /\ checks' <= checks
                  /\ sleeps' <= sleeps
                  /\ pc' \in {"catch", "returned"}]_vars

\* C2 as stated: a stage begins only after the previous stage has returned
\* Succeeded in the same run, and nothing is invoked after the first failure.
C2_StageAfterSucceeded == [](StagesInOrder({"Succeeded"})) /\ NothingAfterFailure

\* C2, amended: a stage begins only after every earlier stage of the handler
\* has succeeded or was skipped (Avatar Generation with USE_CAPTIONS_API unset
\* and in POST_remote, Background Removal with USE_UNSCREEN_API unset: the
\* hard-coded url stands for its result), and nothing is invoked after the
\* first failure.
C2_StageAfterSucceededOrSkipped ==
    [](StagesInOrder({"Succeeded", "Skipped"})) /\ NothingAfterFailure

C2_Witness ==
    /\ variant = "POST_local"
    /\ stage["AvatarGeneration"] = "Succeeded"
    /\ stage["BackgroundRemoval"] = "Succeeded"
    /\ stage["ArtifactStaging"] = "Succeeded"
    /\ "compositeVideoWithBackground" \in invoked

\* C3: once Background Removal has failed (submit rejected, poll failed or
\* timed out), downloadBackgroundImage and compositeVideoWithBackground are
\* not invoked in that run.
C3_ShortCircuit ==
    (stage["BackgroundRemoval"] = "Failed"
       \/ (pc = "pollUnscreenSettled" /\ settled.kind = "throw"))
    => /\ "downloadBackgroundImage" \notin invoked
       /\ "compositeVideoWithBackground" \notin invoked
       /\ pc \in {"pollUnscreenSettled", "pollUntilDoneSettled", "catch", "returned"}

C3_Witness ==
    /\ variant # "POST_remote"
    /\ stage["BackgroundRemoval"] = "Failed"
    /\ pc = "returned"
    /\ response.error = "Background removal timed out"

\* ---- pollUntilDone
\* The success status and a result locator.
SuccessAnswer(a) == a.status = UnscreenSuccessStatus /\ Truthy(a.url)

\* A status that starts with the failure prefix.
FailureAnswer(a) == a # NoAnswer /\ StartsWith(a.status, UnscreenFailurePrefix)

\* Every earlier status check of the call answered with a non-terminal status.
OnlyPendingBefore == thrownSeen = 0 /\ ~malformedSeen

\* C4: when a status check answers with the success status and a result
\* locator, pollUntilDone returns that locator at once: the call has settled,
\* with one sleep less than checks; after k non-terminal statuses that is
\* k + 1 checks and k sleeps.
C4_ReturnsLocator ==
    SuccessAnswer(terminalSeen)
    => /\ pc = "pollUntilDoneSettled"
       /\ settled = Return(terminalSeen.url)
       /\ sleeps = checks - 1
       /\ OnlyPendingBefore => checks = pendingSeen + 1 /\ sleeps = pendingSeen

C4_Witness ==
    /\ pc = "pollUntilDoneSettled"
    /\ SuccessAnswer(terminalSeen)
    /\ settled.value = UNSCREEN_BUNDLE_URL
    /\ OnlyPendingBefore
    /\ pendingSeen = 2
    /\ checks = 3
    /\ sleeps = 2

\* C5: on the first status check whose status starts with the failure prefix,
\* pollUntilDone throws at once an error that carries the status and the
\* job's error message: after k non-terminal statuses that is k + 1 checks,
\* and no sleep follows the failure answer.
C5_FailsImmediately ==
    FailureAnswer(terminalSeen)
    => /\ pc = "pollUntilDoneSettled"
       /\ settled.kind = "throw"
       /\ Includes(settled.err.message, "Polling failed with status: " \o terminalSeen.status)
       /\ Includes(settled.err.message, terminalSeen.error)
       /\ sleeps = checks - 1
       /\ OnlyPendingBefore => checks = pendingSeen + 1 /\ sleeps = pendingSeen

C5_Witness ==
    /\ pc = "pollUntilDoneSettled"
    /\ FailureAnswer(terminalSeen)
    /\ terminalSeen.error = "Video too long"
    /\ OnlyPendingBefore
    /\ pendingSeen = 1
    /\ checks = 2
    /\ sleeps = 1

Elapsed == now - startTime

\* C6: when every status check answers with a non-terminal status,
\* pollUntilDone ends with the timeout error, with the time since startTime at
\* least POLLING_TIMEOUT_MS; no status check begins at or after that time, and
\* the loop head reached at or after it throws without a check.
C6_TimesOut ==
    /\ [](pc = "pollUntilDoneSettled" /\ terminalSeen = NoAnswer /\ OnlyPendingBefore
            => settled = Throw(PollingTimedOutError) /\ Elapsed >= POLLING_TIMEOUT_MS)
    /\ [][pc = "pollUntilDone" /\ checks' = checks + 1
            => Elapsed < POLLING_TIMEOUT_MS]_vars
    /\ [][pc = "pollUntilDone" /\ Elapsed >= POLLING_TIMEOUT_MS
            => pc' = "pollUntilDoneSettled" /\ checks' = checks
               /\ settled' = Throw(PollingTimedOutError)]_vars
    /\ (pc = "pollUntilDone" ~> pc = "pollUntilDoneSettled")

C6_Witness ==
    /\ pc = "pollUntilDoneSettled"
    /\ settled = Throw(PollingTimedOutError)
    /\ terminalSeen = NoAnswer
    /\ OnlyPendingBefore
    /\ pendingSeen = POLLING_TIMEOUT_MS \div POLLING_INTERVAL_MS
    /\ Elapsed = POLLING_TIMEOUT_MS

\* C7: a success status without a result locator ends the poll at once with
\* the malformed-success error.
C7_MalformedSuccessIsFatal ==
    malformedSeen
    => /\ pc = "pollUntilDoneSettled"
       /\ settled.kind = "throw"
       /\ Includes(settled.err.message, "but no result URL found")

\* C8: in each poll loop the error of a status check itself never ends the
\* poll, and a failure status still does.
C8_CheckErrorNeverEndsPoll ==
    /\ settled.kind = "throw" => ~settled.err.axios
    /\ FailureAnswer(terminalSeen) => settled.kind = "throw"

\* The errors with which the submit call or the poll of stage s reaches the
\* catch block of handler v (the stages that call external HTTP services).
StageErrors(v, s) ==
    LET thrownBy(rs) == { r.err : r \in { x \in rs : x.kind = "throw" } } IN
    CASE s = "AvatarGeneration" /\ v # "POST_remote" ->
           HttpFailures
             \cup thrownBy({ pollCaptionsResultStep(a) : a \in CaptionsAnswers })
             \cup { StdError("Video generation timed out") }
      [] s = "BackgroundRemoval" /\ v # "POST_remote" ->
           HttpFailures
             \cup thrownBy({ pollUnscreenResultStep(a) : a \in UnscreenAnswers })
             \cup { StdError("Background removal timed out") }
      [] s = "BackgroundRemoval" /\ v = "POST_remote" ->
           HttpFailures
             \cup thrownBy({ pollUntilDoneStep(a, UnscreenSuccessStatus,
                                               UnscreenFailurePrefix) :
                             a \in UnscreenAnswers })
             \cup { PollingTimedOutError,
                    StdError("Unscreen submission succeeded but failed to get video ID.") }
      [] s \in {"Compositing", "CaptionOverlay"} /\ v = "POST_remote" -> HttpFailures
      [] OTHER -> {}

\* The responses the catch block of handler v gives for a failure of stage s.
StageFailureResponses(v, s) == { CatchResponse(v, e) : e \in StageErrors(v, s) }

\* C9: the error returned for a failed run identifies the stage that failed:
\* no failure of another stage is answered with the same response.
C9_ErrorNamesStage ==
    pc = "returned" /\ failedAt # ""
    => \A s \in Stages \ {failedAt} : response \notin StageFailureResponses(variant, s)

\* C10: the detail of the error returned for a failed run is, unchanged, the
\* error detail that was reported for the failing stage.
C10_DetailUnchanged ==
    pc = "returned" /\ failedAt # "" /\ Truthy(detail) => response.error = detail

\* The environment variables whose value handler v sends to an external
\* service as its API key.
KeysUsed(v, e) ==
    IF v = "POST_remote"
    THEN {"CAPTIONS_API_KEY", "UNSCREEN_API_KEY", "CREATOMATE_API_KEY"}
    ELSE {"UNSCREEN_API_KEY"}
           \cup (IF UsesCaptions(v, e) THEN {"CAPTIONS_API_KEY"} ELSE {})

\* The calls of external services and programs (all operations but mkdir).
ExternalCalls ==
    {"captionsSubmit", "captionsPoll", "unscreenSubmit", "unscreenPoll",
     "checkUnscreenStatus", "curl", "downloadBackgroundImage",
     "compositeVideoWithBackground", "creatomateRender", "captionsAiEdit"}

\* C11: with the API key of a service the handler uses absent from the
\* environment, a valid request makes no external call and is answered with
\* the configuration error.
C11_MissingKeyFailsFast ==
    ValidRequest(req) /\ (\E k \in KeysUsed(variant, env) : ~Truthy(env[k]))
    => /\ invoked \cap ExternalCalls = {}
       /\ pc = "returned"
          => response = ErrorResponse(500, "Server configuration error: API key missing.")

\* C12: a request with script, backgroundImageUrl or creatorId missing or
\* empty is answered with HTTP 400 and nothing else happens: no operation is
\* issued, no workspace directory is created and no file is written.
C12_InvalidRequestRejected ==
    req.script = "" \/ req.backgroundImageUrl = "" \/ req.creatorId = ""
    => /\ pc \in {"Validating", "returned"}
       /\ invoked = {}
       /\ tempDir = ""
       /\ \A f \in FileNames : files[f] = -1
       /\ pc = "returned" => IsError(response) /\ response.status = 400

C12_Witness ==
    /\ req.script # "" /\ req.backgroundImageUrl = "" /\ req.creatorId # ""
    /\ pc = "returned"
    /\ response.status = 400
    /\ variant = "POST_remote"

\* C13: two requests served concurrently never use the same workspace
\* directory, and neither writes a file the other has written.
C13_WorkspacesDistinct ==
    /\ tempDir # "" /\ peer.tempDir # "" => tempDir # peer.tempDir
    /\ \A f \in FileNames :
         files[f] # -1 /\ f \in peer.wrote => tempDir # peer.tempDir

\* The operations that are status checks of a poll loop.
StatusChecks == {"captionsPoll", "unscreenPoll", "checkUnscreenStatus"}

\* C14: a run has at most one external operation outstanding.  A step of the
\* handler runs from one await to the next: it issues at most one operation
\* (a call not made before, or one more status check of the poll in progress)
\* and leaves the handler waiting for that operation's result.
C14_OneOutstanding ==
    [][/\ Cardinality(invoked' \ invoked) <= 1
       /\ checks' \in {0, checks, checks + 1}
       /\ checks' = checks + 1 => invoked' \ invoked \subseteq StatusChecks
       /\ (invoked' \ invoked) \cap StatusChecks # {} => checks' = checks + 1
       /\ invoked' # invoked \/ checks' = checks + 1 => pc' # pc]_vars

C14_Witness ==
    /\ {"unscreenSubmit", "unscreenPoll", "curl", "downloadBackgroundImage"} \subseteq invoked
    /\ pc = "compositeVideoWithBackground"

\* The positions inside the poll loops, where the handler waits for a poll.
PollPositions ==
    {"pollCaptionsResult", "pollCaptionsSleep", "pollCaptionsSettled",
     "pollUnscreenResult", "pollUnscreenSleep", "pollUnscreenSettled",
     "pollUntilDone", "pollUntilDoneSleep", "pollUntilDoneSettled"}

\* The order of the handler's positions in its text.
Rank(p) ==
    CASE p = "Validating" -> 0
      [] p = "Step1" -> 1
      [] p \in {"pollCaptionsResult", "pollCaptionsSleep", "pollCaptionsSettled"} -> 2
      [] p = "Step2" -> 3
      [] p \in {"pollUnscreenResult", "pollUnscreenSleep", "pollUnscreenSettled",
                "pollUntilDone", "pollUntilDoneSleep", "pollUntilDoneSettled"} -> 4
      [] p = "mkdir" -> 5
      [] p = "curl" -> 6
      [] p = "downloadBackgroundImage" -> 7
      [] p \in {"compositeVideoWithBackground", "Step3"} -> 8
      [] p = "Step4" -> 9
      [] p = "return" -> 10
      [] p = "catch" -> 11
      [] OTHER -> 12

\* C15: the handler only moves forward: its position never goes back, a
\* position where a stage is submitted is never entered twice (only the
\* positions of a poll loop repeat), and a failed run stays failed: it issues
\* nothing more and never returns success.
C15_ForwardOnly ==
    /\ [][/\ Rank(pc') >= Rank(pc)
          /\ Rank(pc') = Rank(pc) => pc' = pc \/ pc' \in PollPositions]_vars
    /\ [](failedAt # "" => /\ pc \in {"catch", "returned"}
                           /\ stage[failedAt] = "Failed"
                           /\ ~IsSuccess(response))
    /\ [][failedAt # "" => /\ failedAt' = failedAt
                           /\ stage' = stage
                           /\ invoked' = invoked]_vars

C15_Witness ==
    /\ variant = "POST_local"
    /\ pc = "returned"
    /\ failedAt = "Compositing"
    /\ stage["ArtifactStaging"] = "Succeeded"
    /\ IsError(response)

\* The error of downloadBackgroundImage for a body of length zero.
EmptyImageError == StdError("Downloaded background image is empty")

\* C16: downloadBackgroundImage, for an answer with HTTP status 200: a body of
\* length zero makes it fail with the empty-image error, and a body of N > 0
\* bytes makes it succeed with background.jpg of N bytes in the directory.
C16_EmptyBodyFails ==
    /\ \A x \in ImageAnswers :
         x.http = 200
         => downloadBackgroundImageTry(x)
              = (IF x.size = 0 THEN EmptyImageError ELSE NoError)
    /\ fetched["background.jpg"] = 200
       => IF files["background.jpg"] = 0
          THEN /\ failedAt = "ArtifactStaging"
               /\ thrown = downloadBackgroundImageCatch(EmptyImageError)
               /\ "compositeVideoWithBackground" \notin invoked
          ELSE /\ files["background.jpg"] \in BodySizes \ {0}
               /\ tempDir # ""
               /\ stage["ArtifactStaging"] = "Succeeded"

C16_Witness ==
    /\ fetched["background.jpg"] = 200
    /\ files["background.jpg"] = 0
    /\ pc = "returned"
    /\ response.error = "Failed to download background image: Downloaded background image is empty"

\* C17: downloadBackgroundImage accepts status 200 only: with any other
\* status, 204 included, it fails and background.jpg is not written.
C17_Only200Accepted ==
    /\ \A x \in ImageAnswers :
         x.http # 200 => downloadBackgroundImageTry(x) # NoError
    /\ files["background.jpg"] # -1 => fetched["background.jpg"] = 200
    /\ \A h \in {x.http : x \in ImageAnswers} \ {0, 200} :
         thrown = downloadBackgroundImageCatch(AxiosHttpError(h, NoData))
         => /\ files["background.jpg"] = -1
            /\ failedAt = "ArtifactStaging"
            /\ stage["ArtifactStaging"] = "Failed"
            /\ "compositeVideoWithBackground" \notin invoked

C17_Witness ==
    /\ thrown = downloadBackgroundImageCatch(AxiosHttpError(204, NoData))
    /\ files["background.jpg"] = -1
    /\ pc = "returned"
    /\ IsError(response)

\* C18: the compositor is invoked only with input files that were downloaded
\* with a successful HTTP status and are not empty.
C18_InputsVerified ==
    "compositeVideoWithBackground" \in invoked
    => \A f \in {"transparent.mp4", "background.jpg"} :
         fetched[f] = 200 /\ files[f] > 0

\* The ffmpeg run x exits non-zero, runs longer than the timeout or writes
\* more than maxBuffer bytes.
FfmpegOutOfBounds(x) ==
    x.code # 0 \/ x.ms > timeout \/ x.stderrLen > maxBuffer

\* C19: compositeVideoWithBackground fails, with the message of the error of
\* the ffmpeg call in its own error, exactly when ffmpeg exits non-zero, runs
\* longer than the timeout or writes more than maxBuffer bytes; otherwise it
\* succeeds, output on stderr or not.
C19_CompositingFailsExactlyWhen ==
    /\ \A x \in FfmpegExits : execAsyncError(x) # "" <=> FfmpegOutOfBounds(x)
    /\ ffmpeg # NoFfmpeg
       => IF FfmpegOutOfBounds(ffmpeg)
          THEN /\ pc \in {"catch", "returned"}
               /\ failedAt = "Compositing"
               /\ Truthy(detail)
               /\ thrown = StdError("Failed to composite video: " \o detail)
               /\ files["final.mp4"] = -1
          ELSE /\ stage["Compositing"] = "Succeeded"
               /\ failedAt = ""
               /\ files["final.mp4"] > 0

C19_Witness ==
    /\ ffmpeg.code = 0
    /\ ffmpeg.ms > timeout
    /\ ffmpeg.stderrLen = 0
    /\ pc = "returned"
    /\ response = ErrorResponse(500, "Failed to composite video: Command failed: ffmpeg")

\* The success response names the output file of this run's compositor, inside
\* the directory this run created, and the compositor has succeeded.
FinalPathInWorkspace ==
    /\ response.finalVideoPath # ""
    /\ "mkdir" \in invoked
    /\ tempDir # ""
    /\ StartsWith(response.finalVideoPath, tempDir \o "/")
    /\ response.finalVideoPath = ffmpeg.outputPath
    /\ ~FfmpegOutOfBounds(ffmpeg)
    /\ stage["Compositing"] = "Succeeded"
    /\ files["final.mp4"] > 0

\* C20 as stated: every success response carries a final path that is not
\* empty, lies in the workspace directory the run created and is the output
\* path given to the compositor, which has succeeded.
C20_FinalPathInWorkspace == IsSuccess(response) => FinalPathInWorkspace

\* C20, amended: that holds for the handlers that composite locally; the
\* handler that composites remotely creates no directory and its success
\* response carries the url the last service returned, after every stage of
\* that handler has succeeded.
C20_FinalPathInWorkspaceIfLocal ==
    IsSuccess(response)
    => IF variant = "POST_remote"
       THEN /\ response.finalVideoUrl # ""
            /\ response.finalVideoPath = ""
            /\ tempDir = ""
            /\ ffmpeg = NoFfmpeg
            /\ \A i \in 2..Len(StageOrder(variant)) :
                 stage[StageOrder(variant)[i]] = "Succeeded"
       ELSE FinalPathInWorkspace

C20_Witness ==
    /\ variant = "POST_local"
    /\ IsSuccess(response)
    /\ \A s \in Stages \ {"CaptionOverlay"} : stage[s] = "Succeeded"
    /\ ffmpeg.stderrLen = maxBuffer

\* The operations that submit a job or a request to an external service.
Submits == {"captionsSubmit", "unscreenSubmit", "creatomateRender", "captionsAiEdit"}

\* The run has ended because the external service answered the submit of the
\* failed stage with a non-2xx status: no status check of that stage was made.
SubmitRejected ==
    /\ pc = "returned"
    /\ failedAt # ""
    /\ thrown.axios /\ thrown.status # 0
    /\ StageOps(failedAt) \cap Submits \cap invoked # {}
    /\ StageOps(failedAt) \cap StatusChecks \cap invoked = {}

\* C21: a run whose submit was answered with a non-2xx status fails with that
\* status code and the response body in its error, with no status check for
\* the job and no later stage begun.
C21_SubmissionRejected ==
    SubmitRejected
    => /\ response.status = thrown.status
       /\ Truthy(ApiErrorMessage(thrown.data))
          => Includes(response.error, ApiErrorMessage(thrown.data))
       /\ \A s \in Stages : stage[s] \in {"Running", "Succeeded"} => s # failedAt
       /\ LET o == StageOrder(variant) IN
          \A i, j \in 1..Len(o) : i < j /\ o[i] = failedAt => ~Started(o[j])

\* The error that ended the run came from an HTTP response of a service.
FromUpstreamResponse == thrown.axios /\ thrown.status # 0

\* C22: a failed run returns one error object with a message, and its HTTP
\* status is the status of the upstream response the failure came from, or
\* 500 when it came from none.
C22_UpstreamStatus ==
    pc = "returned" /\ failedAt # ""
    => /\ responses = 1
       /\ IsError(response)
       /\ response.status = (IF FromUpstreamResponse THEN thrown.status ELSE 500)

\* The positions at which a Background Removal poll goes on: it is about to
\* check the status, or it sleeps before the next check.
UnscreenPollGoesOn ==
    pc \in {"pollUnscreenResult", "pollUnscreenSleep", "pollUntilDone", "pollUntilDoneSleep"}

\* C23: the Background Removal poll ends with failure at the first status
\* check that reports status error or failed: no poll goes on once the job
\* has reported its failure (detail holds the error the job reported).
C23_FailureStatusEndsPoll == UnscreenPollGoesOn => detail = ""

\* The error of pollCaptionsResult when the loop has run maxAttempts times.
CaptionsTimedOutError == StdError("Video generation timed out")

\* C24: pollCaptionsResult terminates.  It makes at most maxAttempts status
\* checks, one sleep after each check that did not end it; it returns the url
\* of the first answer with state COMPLETE and a url, throws at the first
\* answer with state FAILED, and after maxAttempts checks without such an
\* answer throws the timeout error without a further check.
C24_CaptionsPollTerminates ==
    /\ [](\A a \in CaptionsAnswers :
            a.thrown = NoError
            => pollCaptionsResultStep(a)
                 = (IF a.status = "COMPLETE" /\ Truthy(a.url) THEN Return(a.url)
                    ELSE IF a.status = "FAILED"
                    THEN Throw(StdError(OrElse(a.error, "Video generation failed")))
                    ELSE Continue))
    /\ [](pc \in {"pollCaptionsResult", "pollCaptionsSleep", "pollCaptionsSettled"}
          => /\ checks <= maxAttempts
             /\ sleeps = attempt
             /\ pc = "pollCaptionsResult" => checks = sleeps /\ settled = Continue
             /\ pc = "pollCaptionsSleep" => checks = sleeps + 1 /\ settled = Continue
             /\ pc = "pollCaptionsSettled"
                => /\ settled.kind \in {"return", "throw"}
                   /\ checks = IF settled = Throw(CaptionsTimedOutError)
                               THEN maxAttempts ELSE sleeps + 1
                   /\ settled = Throw(CaptionsTimedOutError) => sleeps = maxAttempts)
    /\ [][pc = "pollCaptionsResult" /\ checks' = checks + 1 => checks < maxAttempts]_vars
    /\ (pc = "pollCaptionsResult" ~> pc = "pollCaptionsSettled")

C24_Witness ==
    /\ pc = "pollCaptionsSettled"
    /\ settled = Throw(CaptionsTimedOutError)
    /\ checks = maxAttempts
    /\ sleeps = maxAttempts

\* C25: once a cancellation signal has been raised while the run is in a
\* poll loop or waiting for ffmpeg, the poll makes no further status check,
\* ffmpeg does not run to its end, and the run ends with a Cancelled error.
C25_CancelledEndsRun ==
    /\ [][aborted => checks' <= checks]_vars
    /\ [][aborted /\ pc = "compositeVideoWithBackground" => ffmpeg'.code # 0]_vars
    /\ [](aborted /\ pc = "returned"
          => IsError(response) /\ Includes(response.error, "Cancelled"))

\* A status check of pollCaptionsResult or pollUnscreenResult has just been made.
AfterCaptionsCheck ==
    pc \in {"pollCaptionsSleep", "pollCaptionsSettled"} /\ checks = sleeps + 1

AfterUnscreenCheck ==
    pc \in {"pollUnscreenSleep", "pollUnscreenSettled"} /\ checks = sleeps + 1

\* C26: pollCaptionsResult and pollUnscreenResult behave as pollUntilDone
\* called with their status words: whatever answer a status check got, the
\* loop ends or goes on, with a result or with a failure, exactly as one
\* iteration of pollUntilDone does on that answer (and so both make the same
\* number of checks on every sequence of answers).
C26_OneEngine ==
    /\ AfterCaptionsCheck
       => \A a \in CaptionsAnswers :
            pollCaptionsResultStep(a) = settled
            => pollUntilDoneStep(a, "COMPLETE", "FAILED").kind = settled.kind
    /\ AfterUnscreenCheck
       => \A a \in UnscreenAnswers :
            pollUnscreenResultStep(a) = settled
            => pollUntilDoneStep(a, "done", "error").kind = settled.kind

\* The operations of Avatar Generation and Background Removal.
ServiceCalls == StageOps("AvatarGeneration") \cup StageOps("BackgroundRemoval")

\* The run has written a file or has named one to ffmpeg.
WroteFile == (\E f \in FileNames : files[f] >= 0) \/ ffmpeg.outputPath # ""

\* C27 as stated: the run's directory exists before the first stage's submit
\* is issued, and every file of the run is written into it.
C27_WorkspaceAtStart ==
    /\ invoked \cap ServiceCalls # {} => tempDir # ""
    /\ WroteFile => tempDir # ""

\* C27 amended: the handlers that composite locally create the directory
\* after Avatar Generation and Background Removal have succeeded or were
\* skipped, and before the first file is written; once created it is the one
\* directory of the run, no submit or status check is issued any more, and
\* ffmpeg's output is a file in it.  The handler that composites remotely
\* creates no directory and writes no file.
C27_WorkspaceBeforeFirstFile ==
    /\ [](tempDir # "" <=> "mkdir" \in invoked)
    /\ [](tempDir # ""
          => /\ variant # "POST_remote"
             /\ stage["AvatarGeneration"] \in {"Succeeded", "Skipped"}
             /\ stage["BackgroundRemoval"] \in {"Succeeded", "Skipped"})
    /\ [](WroteFile => tempDir # "")
    /\ [](ffmpeg.outputPath # "" => ffmpeg.outputPath = tempDir \o "/final.mp4")
    /\ [][tempDir # "" => /\ tempDir' = tempDir
                          /\ invoked' \cap ServiceCalls = invoked \cap ServiceCalls]_vars
    /\ [][tempDir = "" => files' = files /\ ffmpeg' = ffmpeg]_vars

C27_Witness ==
    /\ pc = "returned"
    /\ IsSuccess(response)
    /\ {"captionsSubmit", "unscreenSubmit", "mkdir"} \subseteq invoked
    /\ tempDir # ""
    /\ \A f \in FileNames : files[f] > 0

\* C28: the poll loops of two concurrent requests do not interfere.  While
\* one request is in its poll (asleep between checks or not) the other can
\* take its next step; a step of one request changes nothing of the other's
\* poll; and the poll ends as its own answers make it end, after one check
\* per answer and at most maxAttempts checks.
C28_PollsDoNotInterfere ==
    /\ [](~PeerDone => ENABLED PeerNext)
    /\ [](pc # "returned" => ENABLED RunNext)
    /\ [][peer' # peer => UNCHANGED <<pc, now, thrown, urls, pollv, hist, out>>]_vars
    /\ [][<<pc, pollv>>' # <<pc, pollv>> => peer' = peer]_vars
    /\ [][pc = "pollUnscreenResult" /\ pc' # pc
          => /\ checks' = IF attempt < maxAttempts THEN checks + 1 ELSE checks
             /\ settled' \in (IF attempt < maxAttempts
                              THEN { pollUnscreenResultStep(a) : a \in UnscreenAnswers }
                              ELSE { Throw(StdError("Background removal timed out")) })]_vars
    /\ [](pc \in {"pollUnscreenResult", "pollUnscreenSleep"}
          => checks <= maxAttempts /\ sleeps = attempt /\ settled = Continue)

C28_Witness ==
    /\ pc = "pollUnscreenSleep"
    /\ checks = 2
    /\ peer.pc = "pollUnscreenSleep"

\* The result locators the polls can return.
CaptionsResults == { a.url : a \in CaptionsAnswers } \ {""}

UnscreenResults == { a.url : a \in UnscreenAnswers } \ {""}

\* What the handler hands to the stages after Background Removal: the url to
\* download (or to render) the foreground from, the image url, and the two
\* files given to ffmpeg.
HandsOnOwnValues ==
    /\ "unscreenSubmit" \in invoked => passed.video_url = avatarVideoUrl
    /\ {"curl", "creatomateRender"} \cap invoked # {}
       => passed.transparent = unscreenResultUrl
    /\ {"downloadBackgroundImage", "creatomateRender"} \cap invoked # {}
       => passed.image = req.backgroundImageUrl
    /\ "compositeVideoWithBackground" \in invoked
       => /\ passed.foreground = tempDir \o "/transparent.mp4"
          /\ passed.background = tempDir \o "/background.jpg"
          /\ fetched["transparent.mp4"] # 0
          /\ fetched["background.jpg"] # 0 /\ files["background.jpg"] > 0

\* C29 as stated: what each stage is given comes from this run's previous
\* stage: video_url is the locator this run's Avatar Generation poll returned
\* and the foreground comes from the locator this run's Background Removal
\* poll returned.
C29_ConsumesPreviousOutput ==
    /\ HandsOnOwnValues
    /\ "unscreenSubmit" \in invoked
       => stage["AvatarGeneration"] = "Succeeded" /\ passed.video_url \in CaptionsResults
    /\ {"curl", "creatomateRender"} \cap invoked # {}
       => stage["BackgroundRemoval"] = "Succeeded" /\ passed.transparent \in UnscreenResults

\* C29 amended: each stage is given the handler's value for the previous
\* stage, which is the locator that stage's poll returned in this run when
\* the stage ran, and the url written in the handler when the stage is
\* switched off (or, in the handler that composites remotely, always for
\* Avatar Generation).
C29_ConsumesPreviousOrFixed ==
    /\ HandsOnOwnValues
    /\ "unscreenSubmit" \in invoked
       => \/ stage["AvatarGeneration"] = "Succeeded" /\ passed.video_url \in CaptionsResults
          \/ /\ stage["AvatarGeneration"] = "Skipped"
             /\ passed.video_url = HARDCODED_AVATAR_URL
             /\ ~UsesCaptions(variant, env)
    /\ {"curl", "creatomateRender"} \cap invoked # {}
       => \/ /\ stage["BackgroundRemoval"] = "Succeeded"
             /\ passed.transparent \in UnscreenResults
          \/ /\ stage["BackgroundRemoval"] = "Skipped"
             /\ passed.transparent = HARDCODED_UNSCREEN_URL
             /\ ~UsesUnscreen(variant, env)

C29_Witness ==
    /\ pc = "returned"
    /\ IsSuccess(response)
    /\ variant = "POST_flags"
    /\ passed.video_url \in CaptionsResults
    /\ passed.transparent \in UnscreenResults
    /\ passed.foreground = tempDir \o "/transparent.mp4"

\* Every status check of the pollUntilDone call so far has thrown.
AllThrew ==
    /\ checks > 0
    /\ thrownSeen > 0
    /\ pendingSeen = 0
    /\ ~malformedSeen
    /\ terminalSeen = NoAnswer

\* C30: while every status check of a pollUntilDone call throws, the poll
\* goes on: each check is followed by a sleep of POLLING_INTERVAL_MS and, as
\* long as the timeout has not passed, by the next check; it ends only when
\* the timeout has passed, with the timeout error, which is the error the
\* caller gets.
C30_AllChecksThrowEndsInTimeout ==
    /\ [](AllThrew /\ pc \in {"pollUntilDone", "pollUntilDoneSleep"}
          => settled = Continue /\ sleeps = IF pc = "pollUntilDone" THEN checks ELSE checks - 1)
    /\ [](AllThrew /\ pc = "pollUntilDoneSettled"
          => /\ settled = Throw(PollingTimedOutError)
             /\ ~pollUntilDoneRunning(startTime, now)
             /\ sleeps = checks)
    /\ [][AllThrew /\ pc = "pollUntilDoneSleep"
          => pc' = "pollUntilDone" /\ now' = now + POLLING_INTERVAL_MS]_vars
    /\ [][AllThrew /\ pc = "pollUntilDone"
          => IF pollUntilDoneRunning(startTime, now)
             THEN checks' = checks + 1 /\ pc' \in {"pollUntilDoneSleep", "pollUntilDoneSettled"}
             ELSE pc' = "pollUntilDoneSettled"]_vars
    /\ [][AllThrew /\ pc = "pollUntilDoneSettled"
          => thrown' = PollingTimedOutError /\ pc' = "catch"]_vars

C30_Witness ==
    /\ pc = "pollUntilDoneSettled"
    /\ AllThrew
    /\ checks >= 2
    /\ settled = Throw(PollingTimedOutError)

\* The Unscreen submit of POST_remote was answered 2xx without a job id.
MissingJobId == variant = "POST_remote" /\ passed.submitted = 200 /\ ~Truthy(passed.videoId)

\* C31: in POST_remote a 2xx answer to the Unscreen submit without a job id
\* fails the run at Background Removal: no status check is issued, pollUntilDone
\* is not entered, no later stage begins, and the answer is the error response
\* with status 500 and the message of the thrown error.
C31_MissingJobIdFailsBeforePoll ==
    /\ [](MissingJobId
          => /\ pc \in {"catch", "returned"}
             /\ failedAt = "BackgroundRemoval"
             /\ stage["BackgroundRemoval"] = "Failed"
             /\ thrown = StdError("Unscreen submission succeeded but failed to get video ID.")
             /\ StatusChecks \cap invoked = {}
             /\ checks = 0
             /\ ~Started("Compositing") /\ ~Started("CaptionOverlay")
             /\ pc = "returned"
                => response = ErrorResponse(500, thrown.message) /\ responses = 1)
    /\ [][MissingJobId => invoked' = invoked /\ checks' = checks]_vars

C31_Witness ==
    /\ MissingJobId
    /\ pc = "returned"
    /\ IsError(response)
    /\ invoked = {"unscreenSubmit"}

\* C32: isLoading is true exactly from the start of a submission until its
\* response has been handled, and once the submission is complete result is
\* not null and has exactly one of videoUrl and error defined.
C32_LoadingAndResult ==
    /\ form.isLoading <=> form.pc = "fetching"
    /\ form.pc = "fetching" => form.result = NullResult
    /\ form.pc = "done"
       => /\ ~form.result.null
          /\ (form.result.videoUrl # Undefined) # (form.result.error # Undefined)

====
